---- MODULE Spec2Model ----
\* Inventory ledger (InventoryManager.add_stock / remove_stock), event
\* reservation manager (EventProductImporter) and barcode scanner
\* (BarcodeScanner) of the EventsManager repository, modelled over the SQLite
\* tables and the scanner fields they read and write.
EXTENDS Integers, Sequences, FiniteSets, TLC

\* ---------------------------------------------------------------- bounds
MaxProducts == 2
MaxEvents == 2
MaxQty == 2
MaxTx == 2
MaxAssigned == 2
MaxSel == 2
MaxTime == 3
MaxBatch == 2
MaxScans == 3
MaxLen == 14
MaxRows == 3
MaxCallers == 2

\* product ids a caller may name; ids above the number of imported products
\* have no inventory row
Products == 1..MaxProducts
Events == 1..MaxEvents
\* quantity arguments: any integer, negative and zero included
Quantities == (0 - 1)..MaxQty

\* ---------------------------------------------------------------- schema
\* columns of annual_events as DatabaseManager.create_tables creates it
create_tables_annual_events ==
    {"id", "periodo", "accordo", "num_eventi", "data", "expo_periodo", "nome",
     "mezzo_trasporto", "disciplina", "localita", "regione", "expo_brand",
     "addetto", "pernotto", "vitto_alloggio", "treno", "spazio_varie",
     "incassi_2024", "caschi", "occhiali", "pneumatici", "bdg_incassi",
     "bdg_costi", "km", "gasolio", "autostrada", "costi_reali", "incassi",
     "pos", "cash", "extra", "vendita_privati_agenti", "ffwd"}

\* CREATE TABLE IF NOT EXISTS keeps an annual_events table that the database
\* file already holds; the audit-log layout (the columns create_tables gives
\* to its "events" table) is the one the ledger's INSERT statements expect
existing_annual_events ==
    {"id", "event_type", "description", "related_id", "event_date", "user"}

\* columns named by INSERT INTO annual_events in add_stock / remove_stock
audit_insert_columns == {"event_type", "description", "related_id", "user"}

VARIABLES
    annual_events_columns,  \* columns of table annual_events in the database file
    inventory,              \* inventory.quantity by product_id (rows 1..n)
    transactions,           \* inventory_transactions rows, in rowid order
    annual_events,          \* audit rows written by the ledger, in rowid order
    event_products,         \* quantity_assigned by <<event_id, product_id>>
    reserved,               \* reservation bookkeeping by product_id
    conn,                   \* db_manager.conn: "None", "open" or "closed"
    mutations,              \* number of ledger calls that changed a quantity
    last,                   \* the last call: arguments, injected fault, outcome
    net_reserved,           \* history: reserve minus release calls by <<event_id, product_id>>
    trip,                   \* history: an assign / update_quantity / remove sequence
    catalog,                \* products.id by products.ean_upc
    last_scan,              \* BarcodeScanner.last_scan
    now,                    \* the clock time.time() reads
    scanned,                \* the last scan_barcode call and what it returned
    prev_scan,              \* history: the scan_barcode call before that one
    results,                \* what the last process_batch_scan call returned
    history,                \* history: the scan_barcode calls since construction
    checked,                \* a barcode handed to the validator and the verdict
    imported,               \* the last file import: its rows and what became of them
    calls                   \* remove_stock calls under way, each on its own connection

ledger_vars == <<inventory, transactions, annual_events>>
reservation_vars == <<event_products, reserved>>
scanner_vars == <<catalog, last_scan, now, scanned, prev_scan, results>>
side_vars == <<history, checked, imported, calls>>

vars == <<annual_events_columns, inventory, transactions, annual_events,
          event_products, reserved, conn, mutations, last, net_reserved, trip,
          catalog, last_scan, now, scanned, prev_scan, results, history,
          checked, imported, calls>>

\* ---------------------------------------------------------------- helpers
\* what the caller sees of a call: the operation, what it returned ("True",
\* "False") or raised ("ValueError"), whether it opened a connection, the
\* statement that raised inside it and the branch it took
Call(op, result, connected, raised, path) ==
    [op |-> op, result |-> result, connected |-> connected, raised |-> raised,
     path |-> path]

NoCall == Call("none", "none", FALSE, "none", "none")

\* failures the environment can inject into one statement of a ledger call
Faults == {"none", "transaction_insert", "audit_insert"}

\* the three ledger tables and db_manager.conn as one value
Db == [inventory |-> inventory, transactions |-> transactions,
       annual_events |-> annual_events, conn |-> conn]

\* SELECT quantity FROM inventory WHERE product_id = ?  (no row: 0)
on_hand(inv, p) == IF p \in DOMAIN inv THEN inv[p] ELSE 0

RECURSIVE signed_sum(_, _)
signed_sum(txs, p) ==
    IF txs = <<>> THEN 0
    ELSE LET t == Head(txs)
             d == IF t.product_id # p THEN 0
                  ELSE IF t.transaction_type = "in" THEN t.quantity
                  ELSE 0 - t.quantity
         IN d + signed_sum(Tail(txs), p)

\* ---------------------------------------------------------------- ledger
\* UPDATE inventory SET quantity = quantity + ? WHERE product_id = ?
update_inventory(db, product_id, delta) ==
    [db EXCEPT !.inventory =
        [x \in DOMAIN db.inventory |->
            IF x = product_id THEN db.inventory[x] + delta ELSE db.inventory[x]]]

\* INSERT INTO inventory_transactions (product_id, transaction_type, quantity, ...)
insert_transaction(db, product_id, transaction_type, quantity) ==
    [db EXCEPT !.transactions =
        Append(db.transactions,
               [product_id |-> product_id, transaction_type |-> transaction_type,
                quantity |-> quantity])]

\* cursor.lastrowid after the transaction insert
lastrowid(db) == Len(db.transactions)

\* does INSERT INTO annual_events (event_type, description, related_id, user) run
audit_insert_ok(columns) == audit_insert_columns \subseteq columns

\* INSERT INTO annual_events (event_type, description, related_id, user)
insert_annual_event(db, event_type, quantity, related_id) ==
    [db EXCEPT !.annual_events =
        Append(db.annual_events,
               [event_type |-> event_type, quantity |-> quantity,
                related_id |-> related_id])]

\* a rollback that undoes nothing
rollback_keeps(before, current) == current

\* conn.rollback(): the statements of the open transaction are undone
rollback(before, current) == before

Outcome(db, result, connected, raised) ==
    [db |-> db, result |-> result, connected |-> connected, raised |-> raised]

\* self.db_manager.connect() raises: conn keeps what it held, and the except
\* branch rolls back and closes whatever that is. None is skipped, an open
\* connection is rolled back and closed, a closed one makes rollback() raise
\* sqlite3.ProgrammingError out of the handler
connect_failed(db) ==
    IF db.conn = "None" THEN Outcome(db, "False", FALSE, "connect")
    ELSE IF db.conn = "open"
    THEN Outcome([db EXCEPT !.conn = "closed"], "False", FALSE, "connect")
    ELSE Outcome(db, "ProgrammingError", FALSE, "connect")

\* add_stock whose guard lets quantity 0 through
add_stock_zero(db, columns, product_id, quantity, fault) ==
    IF quantity < 0 THEN Outcome(db, "False", FALSE, "none")
    ELSE LET s1 == update_inventory(db, product_id, quantity)
             s2 == insert_transaction(s1, product_id, "in", quantity)
             s3 == insert_annual_event(s2, "stock_in", quantity, lastrowid(s2))
         IN IF fault = "transaction_insert"
            THEN Outcome(rollback(db, s1), "False", TRUE, "transaction_insert")
            ELSE IF fault = "audit_insert" \/ ~audit_insert_ok(columns)
            THEN Outcome(rollback(db, s2), "False", TRUE, "audit_insert")
            ELSE Outcome(s3, "True", TRUE, "none")

add_stock(db, columns, product_id, quantity, fault) ==
    IF quantity <= 0 THEN Outcome(db, "False", FALSE, "none")
    ELSE IF fault = "connect" THEN connect_failed(db)
    ELSE LET s1 == update_inventory(db, product_id, quantity)
             s2 == insert_transaction(s1, product_id, "in", quantity)
             s3 == insert_annual_event(s2, "stock_in", quantity, lastrowid(s2))
         IN IF fault = "transaction_insert"
            THEN Outcome(rollback(db, s1), "False", TRUE, "transaction_insert")
            ELSE IF fault = "audit_insert" \/ ~audit_insert_ok(columns)
            THEN Outcome(rollback(db, s2), "False", TRUE, "audit_insert")
            ELSE Outcome(s3, "True", TRUE, "none")

\* remove_stock that only checks that the inventory row exists
remove_stock_unchecked(db, columns, product_id, quantity, fault) ==
    IF quantity <= 0 THEN Outcome(db, "False", FALSE, "none")
    ELSE IF product_id \notin DOMAIN db.inventory
    THEN Outcome(db, "False", TRUE, "none")
    ELSE LET s1 == update_inventory(db, product_id, 0 - quantity)
             s2 == insert_transaction(s1, product_id, "out", quantity)
             s3 == insert_annual_event(s2, "stock_out", quantity, lastrowid(s2))
         IN IF fault = "transaction_insert"
            THEN Outcome(rollback(db, s1), "False", TRUE, "transaction_insert")
            ELSE IF fault = "audit_insert" \/ ~audit_insert_ok(columns)
            THEN Outcome(rollback(db, s2), "False", TRUE, "audit_insert")
            ELSE Outcome(s3, "True", TRUE, "none")

\* remove_stock whose stock check lets a request one above on-hand through
remove_stock_off_by_one(db, columns, product_id, quantity, fault) ==
    IF quantity <= 0 THEN Outcome(db, "False", FALSE, "none")
    ELSE IF product_id \notin DOMAIN db.inventory
            \/ db.inventory[product_id] + 1 < quantity
    THEN Outcome(db, "False", TRUE, "none")
    ELSE LET s1 == update_inventory(db, product_id, 0 - quantity)
             s2 == insert_transaction(s1, product_id, "out", quantity)
             s3 == insert_annual_event(s2, "stock_out", quantity, lastrowid(s2))
         IN IF fault = "transaction_insert"
            THEN Outcome(rollback(db, s1), "False", TRUE, "transaction_insert")
            ELSE IF fault = "audit_insert" \/ ~audit_insert_ok(columns)
            THEN Outcome(rollback(db, s2), "False", TRUE, "audit_insert")
            ELSE Outcome(s3, "True", TRUE, "none")

remove_stock(db, columns, product_id, quantity, fault) ==
    IF quantity <= 0 THEN Outcome(db, "False", FALSE, "none")
    ELSE IF fault = "connect" THEN connect_failed(db)
    ELSE IF product_id \notin DOMAIN db.inventory
            \/ db.inventory[product_id] < quantity
    THEN Outcome(db, "False", TRUE, "none")
    ELSE LET s1 == update_inventory(db, product_id, 0 - quantity)
             s2 == insert_transaction(s1, product_id, "out", quantity)
             s3 == insert_annual_event(s2, "stock_out", quantity, lastrowid(s2))
         IN IF fault = "transaction_insert"
            THEN Outcome(rollback(db, s1), "False", TRUE, "transaction_insert")
            ELSE IF fault = "audit_insert" \/ ~audit_insert_ok(columns)
            THEN Outcome(rollback(db, s2), "False", TRUE, "audit_insert")
            ELSE Outcome(s3, "True", TRUE, "none")

\* remove_stock statement by statement. The stock check: SELECT quantity,
\* fetchone, and the comparison that lets the call go on
remove_stock_check(db, product_id, quantity) ==
    /\ product_id \in DOMAIN db.inventory
    /\ db.inventory[product_id] >= quantity

\* the statements after the check, from the UPDATE to the commit: the UPDATE
\* subtracts from the quantity the table holds when it runs, whatever the
\* SELECT had read
remove_stock_update(db, columns, product_id, quantity) ==
    LET s1 == update_inventory(db, product_id, 0 - quantity)
        s2 == insert_transaction(s1, product_id, "out", quantity)
        s3 == insert_annual_event(s2, "stock_out", quantity, lastrowid(s2))
    IN IF ~audit_insert_ok(columns)
       THEN Outcome(rollback(db, s2), "False", TRUE, "audit_insert")
       ELSE Outcome(s3, "True", TRUE, "none")

\* ---------------------------------------------------------------- reservations
\* the reservation tables as one value
Rs == [event_products |-> event_products, reserved |-> reserved]

\* InventoryManager.get_available_stock: on-hand minus the active reservations
get_available_stock(inv, rs, product_id) ==
    on_hand(inv, product_id) - rs.reserved[product_id]

\* InventoryManager.reserve_stock: books quantity as reserved, on-hand stays
reserve_stock(rs, product_id, quantity) ==
    [rs EXCEPT !.reserved[product_id] = @ + quantity]

\* InventoryManager.release_reserved_stock: gives quantity back to available
release_reserved_stock(rs, product_id, quantity) ==
    [rs EXCEPT !.reserved[product_id] = @ - quantity]

\* db_manager.rollback_transaction(): the unit's statements are undone
rollback_transaction(before, current) == before

\* SELECT ... FROM event_products WHERE event_id = ? AND product_id = ?
existing(rs, event_id, product_id) ==
    <<event_id, product_id>> \in DOMAIN rs.event_products

\* an upsert whose UPDATE branch overwrites quantity_assigned
upsert_overwrites(rs, event_id, product_id, quantity) ==
    IF <<event_id, product_id>> \in DOMAIN rs.event_products
    THEN [rs EXCEPT !.event_products[<<event_id, product_id>>] = quantity]
    ELSE [rs EXCEPT !.event_products = @ @@ (<<event_id, product_id>> :> quantity)]

\* the UPDATE ... SET quantity_assigned = quantity_assigned + ? branch and the
\* INSERT INTO event_products branch of import_products_to_event
upsert_event_product(rs, event_id, product_id, quantity) ==
    IF existing(rs, event_id, product_id)
    THEN [rs EXCEPT !.event_products[<<event_id, product_id>>] = @ + quantity]
    ELSE [rs EXCEPT !.event_products = @ @@ (<<event_id, product_id>> :> quantity)]

\* an UPDATE that adds the new quantity to the stored one
set_quantity_assigned_adds(rs, event_id, product_id, new_quantity) ==
    [rs EXCEPT !.event_products[<<event_id, product_id>>] = @ + new_quantity]

\* UPDATE event_products SET quantity_assigned = ? WHERE event_id = ? AND product_id = ?
set_quantity_assigned(rs, event_id, product_id, new_quantity) ==
    [rs EXCEPT !.event_products[<<event_id, product_id>>] = new_quantity]

\* a DELETE whose WHERE clause matches no row
delete_event_product_none(rs, event_id, product_id) == rs

\* DELETE FROM event_products WHERE event_id = ? AND product_id = ?
delete_event_product(rs, event_id, product_id) ==
    [rs EXCEPT !.event_products =
        [k \in DOMAIN rs.event_products \ {<<event_id, product_id>>} |->
            rs.event_products[k]]]

ROutcome(rs, result, raised, path) ==
    [rs |-> rs, result |-> result, raised |-> raised, path |-> path]

\* a stock check that forgets the requested quantity
insufficient_ignores_quantity(available_stock, quantity) == available_stock < 0

\* if available_stock < quantity: raise ValueError
insufficient(available_stock, quantity) == available_stock < quantity

\* the for loop over product_selections; stops at the first raise: the
\* ValueError of the stock check, or the KeyError of selection['quantity']
\* for a selection that lacks the key
RECURSIVE import_selections(_, _, _, _, _)
import_selections(inv, rs, event_id, product_selections, path) ==
    IF product_selections = <<>> THEN ROutcome(rs, "True", "none", path)
    ELSE IF "quantity" \notin DOMAIN Head(product_selections)
    THEN ROutcome(rs, "KeyError", "missing_quantity", path)
    ELSE LET selection == Head(product_selections)
             product_id == selection.product_id
             quantity == selection.quantity
             available_stock == get_available_stock(inv, rs, product_id)
         IN IF insufficient(available_stock, quantity)
            THEN ROutcome(rs, "ValueError", "insufficient_stock", path)
            ELSE import_selections(inv,
                    reserve_stock(upsert_event_product(rs, event_id, product_id, quantity),
                                  product_id, quantity),
                    event_id, Tail(product_selections),
                    IF existing(rs, event_id, product_id) THEN "update" ELSE "insert")

\* import_products_to_event whose except branch re-raises without rolling back
import_products_to_event_partial(inv, rs, event_id, product_selections) ==
    import_selections(inv, rs, event_id, product_selections, "none")

import_products_to_event(inv, rs, event_id, product_selections) ==
    LET r == import_selections(inv, rs, event_id, product_selections, "none")
    IN IF r.result = "True" THEN r
       ELSE ROutcome(rollback_transaction(rs, r.rs), r.result, r.raised, r.path)

\* update_event_product_quantity without the stock check before reserving
update_quantity_unchecked(inv, rs, event_id, product_id, new_quantity) ==
    IF ~existing(rs, event_id, product_id)
    THEN ROutcome(rollback_transaction(rs, rs), "ValueError", "not_assigned", "none")
    ELSE LET current_quantity == rs.event_products[<<event_id, product_id>>]
             quantity_difference == new_quantity - current_quantity
             available_stock == get_available_stock(inv, rs, product_id)
         IN IF FALSE
            THEN ROutcome(rollback_transaction(rs, rs), "ValueError",
                          "insufficient_stock", "none")
            ELSE LET s1 == IF quantity_difference > 0
                           THEN reserve_stock(rs, product_id, quantity_difference)
                           ELSE IF quantity_difference < 0
                           THEN release_reserved_stock(rs, product_id,
                                                       0 - quantity_difference)
                           ELSE rs
                 IN ROutcome(set_quantity_assigned(s1, event_id, product_id, new_quantity),
                             "True", "none",
                             IF quantity_difference > 0 THEN "reserve"
                             ELSE IF quantity_difference < 0 THEN "release" ELSE "none")

\* update_event_product_quantity without the elif branch that releases
update_quantity_never_releases(inv, rs, event_id, product_id, new_quantity) ==
    IF ~existing(rs, event_id, product_id)
    THEN ROutcome(rollback_transaction(rs, rs), "ValueError", "not_assigned", "none")
    ELSE LET current_quantity == rs.event_products[<<event_id, product_id>>]
             quantity_difference == new_quantity - current_quantity
             available_stock == get_available_stock(inv, rs, product_id)
         IN IF quantity_difference > 0 /\ available_stock < quantity_difference
            THEN ROutcome(rollback_transaction(rs, rs), "ValueError",
                          "insufficient_stock", "none")
            ELSE LET s1 == IF quantity_difference > 0
                           THEN reserve_stock(rs, product_id, quantity_difference)
                           ELSE IF quantity_difference < 0
                           THEN rs
                           ELSE rs
                 IN ROutcome(set_quantity_assigned(s1, event_id, product_id, new_quantity),
                             "True", "none",
                             IF quantity_difference > 0 THEN "reserve"
                             ELSE IF quantity_difference < 0 THEN "release" ELSE "none")

update_event_product_quantity(inv, rs, event_id, product_id, new_quantity) ==
    IF ~existing(rs, event_id, product_id)
    THEN ROutcome(rollback_transaction(rs, rs), "ValueError", "not_assigned", "none")
    ELSE LET current_quantity == rs.event_products[<<event_id, product_id>>]
             quantity_difference == new_quantity - current_quantity
             available_stock == get_available_stock(inv, rs, product_id)
         IN IF quantity_difference > 0 /\ available_stock < quantity_difference
            THEN ROutcome(rollback_transaction(rs, rs), "ValueError",
                          "insufficient_stock", "none")
            ELSE LET s1 == IF quantity_difference > 0
                           THEN reserve_stock(rs, product_id, quantity_difference)
                           ELSE IF quantity_difference < 0
                           THEN release_reserved_stock(rs, product_id,
                                                       0 - quantity_difference)
                           ELSE rs
                 IN ROutcome(set_quantity_assigned(s1, event_id, product_id, new_quantity),
                             "True", "none",
                             IF quantity_difference > 0 THEN "reserve"
                             ELSE IF quantity_difference < 0 THEN "release" ELSE "none")

\* remove_product_from_event that deletes the row and releases nothing
remove_keeps_reservation(rs, event_id, product_id) ==
    IF ~existing(rs, event_id, product_id)
    THEN ROutcome(rollback_transaction(rs, rs), "ValueError", "not_assigned", "none")
    ELSE LET current_quantity == rs.event_products[<<event_id, product_id>>]
         IN ROutcome(delete_event_product(
                        rs,
                        event_id, product_id),
                     "True", "none", "release")

\* remove_product_from_event that returns True when no row is assigned
remove_unassigned_succeeds(rs, event_id, product_id) ==
    IF ~existing(rs, event_id, product_id)
    THEN ROutcome(rs, "True", "none", "none")
    ELSE LET current_quantity == rs.event_products[<<event_id, product_id>>]
         IN ROutcome(delete_event_product(
                        release_reserved_stock(rs, product_id, current_quantity),
                        event_id, product_id),
                     "True", "none", "release")

remove_product_from_event(rs, event_id, product_id) ==
    IF ~existing(rs, event_id, product_id)
    THEN ROutcome(rollback_transaction(rs, rs), "ValueError", "not_assigned", "none")
    ELSE LET current_quantity == rs.event_products[<<event_id, product_id>>]
         IN ROutcome(delete_event_product(
                        release_reserved_stock(rs, product_id, current_quantity),
                        event_id, product_id),
                     "True", "none", "release")

\* sum over events of quantity_assigned(e, p)
RECURSIVE sum_assigned(_, _, _)
sum_assigned(ep, p, events) ==
    IF events = {} THEN 0
    ELSE LET e == CHOOSE x \in events : TRUE
         IN (IF <<e, p>> \in DOMAIN ep THEN ep[<<e, p>>] ELSE 0)
            + sum_assigned(ep, p, events \ {e})

total_assigned(ep, p) == sum_assigned(ep, p, Events)

Selections == [product_id : Products, quantity : Quantities]
\* import_products_from_excel passes one selection per call: [selection]
SelectionLists == {<<selection>> : selection \in Selections}

\* a selection dict without the 'quantity' key
MalformedSelections == {[product_id |-> p] : p \in Products}
\* product_selections with several entries, as the signature allows
BatchSelectionLists ==
    UNION {[1..n -> Selections \cup MalformedSelections] : n \in 2..MaxSel}

Pairs == Events \X Products

\* what db_manager.conn can hold
ConnStates == {"None", "open", "closed"}

\* failures of a read query: connect() raises, or the SELECT does
QueryFaults == {"none", "connect", "query"}

\* InventoryManager.get_product_by_barcode as its caller sees it: connect,
\* SELECT, fetchone, close, with nothing caught on the way
lookup(cat, inv, c, barcode, fault) ==
    IF fault = "connect"
    THEN [conn |-> c, result |-> "OperationalError", connected |-> FALSE,
          raised |-> "connect"]
    ELSE IF fault = "query"
    THEN [conn |-> "open", result |-> "OperationalError", connected |-> TRUE,
          raised |-> "query"]
    ELSE [conn |-> "closed",
          result |-> IF barcode \in DOMAIN cat /\ cat[barcode] \in DOMAIN inv
                     THEN "product" ELSE "None",
          connected |-> TRUE, raised |-> "none"]

\* quantities stay inside the window the model explores
within_window(rs) ==
    /\ \A k \in DOMAIN rs.event_products :
          rs.event_products[k] \in 0..MaxAssigned
    /\ \A p \in Products : rs.reserved[p] \in 0..MaxAssigned

\* ---------------------------------------------------------------- scanner
\* Python's None, and a value that is not None
None == <<>>
Some(x) == <<x>>

\* self.scan_timeout = 2.0 seconds; the clock counts whole seconds
scan_timeout == 2

\* the characters a scanned string is made of
DigitChars == <<"0", "1", "2", "3", "4", "5", "6", "7", "8", "9">>
Digits == {DigitChars[i] : i \in DOMAIN DigitChars}

\* int(d) for a digit character
int(d) == (CHOOSE i \in DOMAIN DigitChars : DigitChars[i] = d) - 1

\* test_barcodes of the module's __main__ block
ean13_5901234123457 ==
    <<"5", "9", "0", "1", "2", "3", "4", "1", "2", "3", "4", "5", "7">>
ean8_12345678 == <<"1", "2", "3", "4", "5", "6", "7", "8">>
short_123456 == <<"1", "2", "3", "4", "5", "6">>
alpha_ABC123456789 ==
    <<"A", "B", "C", "1", "2", "3", "4", "5", "6", "7", "8", "9">>
test_barcodes ==
    <<ean13_5901234123457, ean8_12345678, short_123456, alpha_ABC123456789>>

\* further scanner input: an EAN-8 whose last digit is its check digit, and
\* the EAN-13 above as a label prints it, with separators
ean8_12345670 == <<"1", "2", "3", "4", "5", "6", "7", "0">>
dashed_5901234123457 ==
    <<"5", "9", "0", "-", "1", "2", "3", "4", "-", "1", "2", "3", "4", "5", "7">>

RawBarcodes ==
    {ean13_5901234123457, ean8_12345678, short_123456, alpha_ABC123456789,
     ean8_12345670, dashed_5901234123457}

\* re.sub(r'[^0-9]', '', barcode)
_clean_barcode(barcode) == SelectSeq(barcode, LAMBDA c : c \in Digits)

\* str.isdigit(): every character a digit, and at least one character
isdigit(barcode) ==
    /\ barcode # <<>>
    /\ \A i \in DOMAIN barcode : barcode[i] \in Digits

valid_lengths == {8, 12, 13, 14}

\* sum(digits[start::2]) for a 0-based start over the first n characters
RECURSIVE slice_sum(_, _, _)
slice_sum(barcode, start, n) ==
    IF start >= n THEN 0
    ELSE int(barcode[start + 1]) + slice_sum(barcode, start + 2, n)

\* the check-digit rule with the EAN-13 weights applied to every length
_validate_check_digit_ean13_weights(barcode) ==
    LET check_digit == int(barcode[Len(barcode)])
        odd_sum == slice_sum(barcode, 0, Len(barcode) - 1)
        even_sum == slice_sum(barcode, 1, Len(barcode) - 1)
        total == even_sum * 3 + odd_sum
        expected_check_digit == (10 - (total % 10)) % 10
    IN check_digit = expected_check_digit

\* the check-digit rule with the UPC weights applied to every length
_validate_check_digit_upc_weights(barcode) ==
    LET check_digit == int(barcode[Len(barcode)])
        odd_sum == slice_sum(barcode, 0, Len(barcode) - 1)
        even_sum == slice_sum(barcode, 1, Len(barcode) - 1)
        total == odd_sum * 3 + even_sum
        expected_check_digit == (10 - (total % 10)) % 10
    IN check_digit = expected_check_digit

_validate_check_digit(barcode) ==
    LET check_digit == int(barcode[Len(barcode)])
        odd_sum == slice_sum(barcode, 0, Len(barcode) - 1)
        even_sum == slice_sum(barcode, 1, Len(barcode) - 1)
        total == IF Len(barcode) \in {8, 12}
                 THEN odd_sum * 3 + even_sum
                 ELSE even_sum * 3 + odd_sum
        expected_check_digit == (10 - (total % 10)) % 10
    IN check_digit = expected_check_digit

\* validation that takes every 12-digit string
_validate_barcode_unchecked_upc(barcode) ==
    IF ~isdigit(barcode) THEN FALSE
    ELSE IF Len(barcode) \notin valid_lengths THEN FALSE
    ELSE IF Len(barcode) \in {8, 13} THEN _validate_check_digit(barcode)
    ELSE TRUE

_validate_barcode(barcode) ==
    IF ~isdigit(barcode) THEN FALSE
    ELSE IF Len(barcode) \notin valid_lengths THEN FALSE
    ELSE IF Len(barcode) \in {8, 12, 13} THEN _validate_check_digit(barcode)
    ELSE TRUE

\* barcodes an imported product can carry in products.ean_upc
CatalogBarcodes ==
    {_clean_barcode(b) : b \in {r \in RawBarcodes : _validate_barcode(_clean_barcode(r))}}

\* SELECT p.*, i.quantity FROM products p JOIN inventory i ... WHERE p.ean_upc = ?
get_product_by_barcode(cat, inv, barcode) ==
    IF barcode \in DOMAIN cat /\ cat[barcode] \in DOMAIN inv
    THEN Some([id |-> cat[barcode], ean_upc |-> barcode,
               quantity |-> inv[cat[barcode]]])
    ELSE None

\* what scan_barcode leaves in last_scan and hands back: the 'error' entry of
\* the returned dict ("none": the lookup's result is returned as it is), the
\* product, and how often the catalog was queried
SOutcome(ls, error, product, lookups, barcode, valid) ==
    [last_scan |-> ls, error |-> error, product |-> product, lookups |-> lookups,
     barcode |-> barcode, valid |-> valid]

\* scan_barcode with a duplicate window that includes its end point
scan_barcode_inclusive_window(cat, inv, ls, current_time, raw) ==
    LET barcode == _clean_barcode(raw)
    IN IF ~_validate_barcode(barcode)
       THEN SOutcome(ls, "Invalid barcode format", None, 0, barcode, FALSE)
       ELSE IF /\ ls # None
               /\ ls[1].barcode = barcode
               /\ current_time - ls[1].timestamp <= scan_timeout
       THEN SOutcome(ls, "Duplicate scan", ls[1].product, 0, barcode, TRUE)
       ELSE LET product == get_product_by_barcode(cat, inv, barcode)
            IN SOutcome(Some([barcode |-> barcode, timestamp |-> current_time,
                              product |-> product]),
                        "none", product, 1, barcode, TRUE)

\* scan_barcode with a duplicate branch that restarts the window
scan_barcode_refreshes_on_duplicate(cat, inv, ls, current_time, raw) ==
    LET barcode == _clean_barcode(raw)
    IN IF ~_validate_barcode(barcode)
       THEN SOutcome(ls, "Invalid barcode format", None, 0, barcode, FALSE)
       ELSE IF /\ ls # None
               /\ ls[1].barcode = barcode
               /\ current_time - ls[1].timestamp < scan_timeout
       THEN SOutcome(Some([ls[1] EXCEPT !.timestamp = current_time]),
                     "Duplicate scan", ls[1].product, 0, barcode, TRUE)
       ELSE LET product == get_product_by_barcode(cat, inv, barcode)
            IN SOutcome(Some([barcode |-> barcode, timestamp |-> current_time,
                              product |-> product]),
                        "none", product, 1, barcode, TRUE)

\* scan_barcode with a duplicate test that looks at the time alone
scan_barcode_any_barcode(cat, inv, ls, current_time, raw) ==
    LET barcode == _clean_barcode(raw)
    IN IF ~_validate_barcode(barcode)
       THEN SOutcome(ls, "Invalid barcode format", None, 0, barcode, FALSE)
       ELSE IF /\ ls # None
               /\ current_time - ls[1].timestamp < scan_timeout
       THEN SOutcome(ls, "Duplicate scan", ls[1].product, 0, barcode, TRUE)
       ELSE LET product == get_product_by_barcode(cat, inv, barcode)
            IN SOutcome(Some([barcode |-> barcode, timestamp |-> current_time,
                              product |-> product]),
                        "none", product, 1, barcode, TRUE)

scan_barcode(cat, inv, ls, current_time, raw) ==
    LET barcode == _clean_barcode(raw)
    IN IF ~_validate_barcode(barcode)
       THEN SOutcome(ls, "Invalid barcode format", None, 0, barcode, FALSE)
       ELSE IF /\ ls # None
               /\ ls[1].barcode = barcode
               /\ current_time - ls[1].timestamp < scan_timeout
       THEN SOutcome(ls, "Duplicate scan", ls[1].product, 0, barcode, TRUE)
       ELSE LET product == get_product_by_barcode(cat, inv, barcode)
            IN SOutcome(Some([barcode |-> barcode, timestamp |-> current_time,
                              product |-> product]),
                        "none", product, 1, barcode, TRUE)

BatchResults(total, found, not_found, invalid, products) ==
    [total |-> total, found |-> found, not_found |-> not_found,
     invalid |-> invalid, products |-> products]

\* the for loop of process_batch_scan over the barcodes still to come
RECURSIVE batch_loop(_, _, _, _)
batch_loop(cat, inv, barcodes, res) ==
    IF barcodes = <<>> THEN res
    ELSE LET clean_barcode == _clean_barcode(Head(barcodes))
             product == get_product_by_barcode(cat, inv, clean_barcode)
         IN IF ~_validate_barcode(clean_barcode)
            THEN batch_loop(cat, inv, Tail(barcodes),
                            [res EXCEPT !.invalid = @ + 1])
            ELSE IF product # None
            THEN batch_loop(cat, inv, Tail(barcodes),
                            [res EXCEPT !.found = @ + 1,
                                        !.products = Append(@, product[1])])
            ELSE batch_loop(cat, inv, Tail(barcodes),
                            [res EXCEPT !.not_found = @ + 1])

process_batch_scan(cat, inv, barcodes) ==
    batch_loop(cat, inv, barcodes, BatchResults(Len(barcodes), 0, 0, 0, <<>>))

\* the lists handed to process_batch_scan
BatchLists ==
    {test_barcodes} \cup UNION {[1..n -> RawBarcodes] : n \in 0..MaxBatch}

NoScan ==
    [op |-> "none", barcode |-> <<>>, valid |-> FALSE, time |-> 0,
     error |-> "none", product |-> None, lookups |-> 0]

\* (10 - (total % 10)) % 10 over barcode[:-1], with the weights of the
\* barcode's length
expected_check_digit(barcode) ==
    LET odd_sum == slice_sum(barcode, 0, Len(barcode) - 1)
        even_sum == slice_sum(barcode, 1, Len(barcode) - 1)
        total == IF Len(barcode) \in {8, 12}
                 THEN odd_sum * 3 + even_sum
                 ELSE even_sum * 3 + odd_sum
    IN (10 - (total % 10)) % 10

\* strings handed to the validator: digit strings of every length up to
\* MaxLen whose digits run as (a * i + b) % 10, each with every last digit,
\* bare and with a separator in the middle, and the scanner's inputs
Slopes == {0, 1, 3, 7}
DigitRuns(n) ==
    {[i \in 1..n |-> DigitChars[((a * i + b) % 10) + 1]] : a \in Slopes, b \in 0..9}
DigitStrings(n) ==
    IF n = 0 THEN {<<>>}
    ELSE {[run EXCEPT ![n] = DigitChars[d + 1]] : run \in DigitRuns(n), d \in 0..9}
separated(barcode) ==
    SubSeq(barcode, 1, Len(barcode) \div 2) \o <<"-">>
       \o SubSeq(barcode, (Len(barcode) \div 2) + 1, Len(barcode))
ValidatorInputs ==
    LET bare == UNION {DigitStrings(n) : n \in 0..MaxLen}
    IN bare \cup {separated(b) : b \in bare} \cup RawBarcodes

\* 12-digit prefixes, and the EAN-13 barcodes they give with their check digit
Ean13Prefixes == DigitRuns(12)
with_check_digit(prefix) ==
    LET barcode == Append(prefix, "0")
    IN Append(prefix, DigitChars[expected_check_digit(barcode) + 1])

NoCheck ==
    [op |-> "none", raw |-> <<>>, barcode |-> <<>>, valid |-> FALSE,
     computed |-> 0, accepted |-> {}]

\* rows of an import file: one that names a new product or event, and one
\* whose INSERT or UPDATE raises sqlite3.IntegrityError (a unique key that a
\* row already holds)
RowKinds == {"new", "conflict"}
ImportFiles == UNION {[1..n -> RowKinds] : n \in 1..MaxRows}

count_rows(rows, kind) == Cardinality({i \in DOMAIN rows : rows[i] = kind})

NoImport ==
    [op |-> "none", rows |-> 0, conflicts |-> 0, written |-> 0, raised |-> "none"]

\* the for loop of import_excel_file over the rows still to come: nothing in
\* the loop catches, so the first statement that raises ends the loop in
\* the outer except, which rolls back every row of the file and re-raises
RECURSIVE import_excel_rows(_, _, _)
import_excel_rows(before, inv, rows) ==
    IF rows = <<>>
    THEN [inventory |-> inv, raised |-> "none", written |-> Len(inv) - Len(before)]
    ELSE IF Head(rows) = "conflict"
    THEN [inventory |-> rollback(before, inv), raised |-> "IntegrityError",
          written |-> 0]
    ELSE import_excel_rows(before, Append(inv, 0), Tail(rows))

\* the for loop of import_events_from_excel: a row whose INSERT raises
\* sqlite3.IntegrityError is printed and left out, the loop goes on
RECURSIVE import_event_rows(_, _)
import_event_rows(events, rows) ==
    IF rows = <<>> THEN events
    ELSE IF Head(rows) = "conflict" THEN import_event_rows(events, Tail(rows))
    ELSE import_event_rows(
            Append(events, [event_type |-> "imported", quantity |-> 0,
                            related_id |-> 0]),
            Tail(rows))

\* the calls that can be under way at once
Callers == 1..MaxCallers

NoRemoval ==
    [pc |-> "idle", product_id |-> 0, quantity |-> 0, result |-> "none"]

\* ---------------------------------------------------------------- actions
NoTrip ==
    [phase |-> "idle", event_id |-> 0, product_id |-> 0, quantity |-> 0,
     new_quantity |-> 0, available_before |-> 0, had_row |-> FALSE, released |-> 0]

Init ==
    /\ annual_events_columns \in {create_tables_annual_events, existing_annual_events}
    /\ inventory = <<>>
    /\ transactions = <<>>
    /\ annual_events = <<>>
    /\ event_products = <<>>
    /\ reserved = [p \in Products |-> 0]
    /\ conn = "None"
    /\ mutations = 0
    /\ last = NoCall
    /\ net_reserved = [k \in Pairs |-> 0]
    /\ trip = NoTrip
    /\ catalog = <<>>
    /\ last_scan = None
    /\ now = 0
    /\ scanned = NoScan
    /\ prev_scan = None
    /\ results = BatchResults(0, 0, 0, 0, <<>>)
    /\ history = <<>>
    /\ checked = NoCheck
    /\ imported = NoImport
    /\ calls = [c \in Callers |-> NoRemoval]

\* ExcelImporter.import_excel_file for a row that names a new product: the
\* product gets the next id, its ean_upc when the row has one, and an
\* inventory row with quantity 0
ImportRow(ean_upc) ==
    /\ inventory' = Append(inventory, 0)
    /\ catalog' = IF ean_upc = None THEN catalog
                  ELSE catalog @@ (ean_upc[1] :> Len(inventory) + 1)
    /\ conn' = "closed"
    /\ last' = Call("import_excel_file", "True", TRUE, "none", "insert")
    /\ UNCHANGED <<annual_events_columns, transactions, annual_events,
                   event_products, reserved, mutations, net_reserved, trip,
                   last_scan, now, scanned, prev_scan, results, side_vars>>

ImportProduct ==
    /\ Len(inventory) < MaxProducts
    /\ ImportRow(None)

\* a row whose EAN/UPC no product carries yet
ImportBarcodedProduct ==
    /\ Len(inventory) < MaxProducts
    /\ \E ean_upc \in CatalogBarcodes :
          /\ ean_upc \notin DOMAIN catalog
          /\ ImportRow(Some(ean_upc))

LedgerCall(op, r) ==
    /\ inventory' = r.db.inventory
    /\ transactions' = r.db.transactions
    /\ annual_events' = r.db.annual_events
    /\ conn' = IF r.connected THEN "closed" ELSE r.db.conn
    /\ mutations' = IF r.db.inventory # inventory THEN mutations + 1 ELSE mutations
    /\ last' = Call(op, r.result, r.connected, r.raised, "none")
    /\ UNCHANGED <<annual_events_columns, event_products, reserved, net_reserved,
                   trip, scanner_vars, side_vars>>

AddStockCall(product_id, quantity, fault) ==
    LedgerCall("add_stock",
               add_stock(Db, annual_events_columns, product_id, quantity, fault))

RemoveStockCall(product_id, quantity, fault) ==
    LedgerCall("remove_stock",
               remove_stock(Db, annual_events_columns, product_id, quantity, fault))

\* add_stock / remove_stock while the database file cannot be opened
AddStockUnreachable ==
    /\ conn \in ConnStates
    /\ \E product_id \in Products, quantity \in Quantities :
          AddStockCall(product_id, quantity, "connect")

RemoveStockUnreachable ==
    /\ conn \in ConnStates
    /\ \E product_id \in Products, quantity \in Quantities :
          RemoveStockCall(product_id, quantity, "connect")

\* a read query of InventoryManager
GetProductByBarcodeCall(barcode, fault) ==
    LET r == lookup(catalog, inventory, conn, barcode, fault)
    IN /\ conn' = r.conn
       /\ last' = Call("get_product_by_barcode", r.result, r.connected,
                       r.raised, "none")
       /\ UNCHANGED <<annual_events_columns, inventory, transactions,
                      annual_events, event_products, reserved, mutations,
                      net_reserved, trip, scanner_vars, side_vars>>

GetProductByBarcode ==
    /\ conn \in ConnStates
    /\ \E barcode \in CatalogBarcodes, fault \in QueryFaults :
          GetProductByBarcodeCall(barcode, fault)

\* ExcelImporter.import_excel_file over a file of several rows
ImportExcelFileCall(rows) ==
    LET r == import_excel_rows(inventory, inventory, rows)
    IN /\ inventory' = r.inventory
       /\ conn' = "closed"
       /\ last' = Call("import_excel_file",
                       IF r.raised = "none" THEN "True" ELSE r.raised,
                       TRUE, r.raised, "insert")
       /\ imported' = [op |-> "import_excel_file", rows |-> Len(rows),
                       conflicts |-> count_rows(rows, "conflict"),
                       written |-> r.written, raised |-> r.raised]
       /\ UNCHANGED <<annual_events_columns, transactions, annual_events,
                      event_products, reserved, mutations, net_reserved, trip,
                      scanner_vars, history, checked, calls>>

ImportExcelFile ==
    /\ Len(inventory) < MaxProducts
    /\ \E rows \in ImportFiles :
          /\ Len(inventory) + count_rows(rows, "new") <= MaxProducts
          /\ ImportExcelFileCall(rows)

\* AnnualEventImporter.import_events_from_excel on the connection it was
\* given, into a table with the columns create_tables gives it
ImportEventsCall(rows) ==
    LET r == import_event_rows(annual_events, rows)
    IN /\ annual_events' = r
       /\ last' = Call("import_events_from_excel", "None", FALSE, "none", "insert")
       /\ imported' = [op |-> "import_events_from_excel", rows |-> Len(rows),
                       conflicts |-> count_rows(rows, "conflict"),
                       written |-> Len(r) - Len(annual_events),
                       raised |-> "none"]
       /\ UNCHANGED <<annual_events_columns, inventory, transactions,
                      event_products, reserved, conn, mutations, net_reserved,
                      trip, scanner_vars, history, checked, calls>>

ImportEvents ==
    /\ annual_events_columns = create_tables_annual_events
    /\ Len(annual_events) < MaxRows
    /\ \E rows \in ImportFiles : ImportEventsCall(rows)

\* one caller's remove_stock up to its stock check, on a connection of its
\* own: a call that fails the check closes and returns False, one that
\* passes stands before its UPDATE
CheckStockCall(c, product_id, quantity) ==
    /\ calls[c].pc = "idle"
    /\ IF remove_stock_check(Db, product_id, quantity)
       THEN /\ calls' = [calls EXCEPT ![c] =
                            [pc |-> "checked", product_id |-> product_id,
                             quantity |-> quantity, result |-> "none"]]
            /\ UNCHANGED last
       ELSE /\ calls' = [calls EXCEPT ![c] =
                            [pc |-> "idle", product_id |-> product_id,
                             quantity |-> quantity, result |-> "False"]]
            /\ last' = Call("remove_stock", "False", TRUE, "none", "none")
    /\ UNCHANGED <<annual_events_columns, inventory, transactions, annual_events,
                   event_products, reserved, conn, mutations, net_reserved,
                   trip, scanner_vars, history, checked, imported>>

CheckStock ==
    /\ Len(transactions) < MaxTx
    /\ \E c \in Callers, product_id \in Products, quantity \in 1..MaxQty :
          CheckStockCall(c, product_id, quantity)

\* the rest of that call: UPDATE, the two INSERTs and the commit, which
\* sqlite runs under the database's write lock, one caller at a time
UpdateStockCall(c) ==
    LET r == remove_stock_update(Db, annual_events_columns,
                                 calls[c].product_id, calls[c].quantity)
    IN /\ calls[c].pc = "checked"
       /\ inventory' = r.db.inventory
       /\ transactions' = r.db.transactions
       /\ annual_events' = r.db.annual_events
       /\ mutations' = IF r.db.inventory # inventory THEN mutations + 1
                       ELSE mutations
       /\ last' = Call("remove_stock", r.result, TRUE, r.raised, "none")
       /\ calls' = [calls EXCEPT ![c] = [@ EXCEPT !.pc = "idle",
                                                  !.result = r.result]]
       /\ UNCHANGED <<annual_events_columns, event_products, reserved, conn,
                      net_reserved, trip, scanner_vars, history, checked,
                      imported>>

UpdateStock ==
    /\ Len(transactions) <= MaxTx
    /\ \E c \in Callers : UpdateStockCall(c)

AddStock ==
    /\ Len(transactions) < MaxTx
    /\ \E product_id \in Products, quantity \in Quantities, fault \in Faults :
          AddStockCall(product_id, quantity, fault)

RemoveStock ==
    /\ Len(transactions) < MaxTx
    /\ \E product_id \in Products, quantity \in Quantities, fault \in Faults :
          RemoveStockCall(product_id, quantity, fault)

\* the reserve_stock / release_reserved_stock calls of one operation are made
\* for its event_id: their net amount per product is booked on the pair
reserved_on_behalf(event_id, rs) ==
    [k \in Pairs |->
        IF k[1] = event_id
        THEN net_reserved[k] + (rs.reserved[k[2]] - reserved[k[2]])
        ELSE net_reserved[k]]

\* the committed (or rolled back) outcome r of a reservation operation
ReservationApply(op, event_id, r) ==
    /\ event_products' = r.rs.event_products
    /\ reserved' = r.rs.reserved
    /\ net_reserved' = reserved_on_behalf(event_id, r.rs)
    /\ last' = Call(op, r.result, FALSE, r.raised, r.path)
    /\ UNCHANGED <<annual_events_columns, inventory, transactions, annual_events,
                   conn, mutations, scanner_vars, side_vars>>

ReservationCall(op, event_id, r) ==
    /\ within_window(r.rs)
    /\ ReservationApply(op, event_id, r)
    /\ UNCHANGED trip

AssignCall(event_id, product_selections) ==
    ReservationCall("import_products_to_event", event_id,
        import_products_to_event(inventory, Rs, event_id, product_selections))

UpdateQuantityCall(event_id, product_id, new_quantity) ==
    ReservationCall("update_event_product_quantity", event_id,
        update_event_product_quantity(inventory, Rs, event_id, product_id, new_quantity))

RemoveCall(event_id, product_id) ==
    ReservationCall("remove_product_from_event", event_id,
        remove_product_from_event(Rs, event_id, product_id))

\* calls are issued one at a time: the previous one has closed its connection
Assign ==
    /\ conn # "open"
    /\ \E event_id \in Events, product_selections \in SelectionLists :
          AssignCall(event_id, product_selections)

UpdateQuantity ==
    /\ conn # "open"
    /\ \E event_id \in Events, product_id \in Products, new_quantity \in Quantities :
          UpdateQuantityCall(event_id, product_id, new_quantity)

Remove ==
    /\ conn # "open"
    /\ \E event_id \in Events, product_id \in Products :
          RemoveCall(event_id, product_id)

\* import_products_to_event with a list of several selections
AssignBatch ==
    /\ conn # "open"
    /\ \E event_id \in Events, product_selections \in BatchSelectionLists :
          AssignCall(event_id, product_selections)

\* assign(e, p, q), update_quantity(e, p, n) with 0 < n < q and remove(e, p)
\* issued one after the other, with what the caller can observe on the way
TripAssign ==
    /\ trip.phase = "idle"
    /\ \E event_id \in Events, product_id \in Products, quantity \in Quantities :
          LET r == import_products_to_event(inventory, Rs, event_id,
                      <<[product_id |-> product_id, quantity |-> quantity]>>)
          IN /\ quantity > 1
             /\ r.result = "True"
             /\ ReservationApply("import_products_to_event", event_id, r)
             /\ trip' = [phase |-> "assigned", event_id |-> event_id,
                         product_id |-> product_id, quantity |-> quantity,
                         new_quantity |-> 0,
                         available_before |->
                            get_available_stock(inventory, Rs, product_id),
                         had_row |-> existing(Rs, event_id, product_id),
                         released |-> 0]

TripUpdate ==
    /\ trip.phase = "assigned"
    /\ \E new_quantity \in Quantities :
          LET r == update_event_product_quantity(inventory, Rs, trip.event_id,
                                                 trip.product_id, new_quantity)
          IN /\ 0 < new_quantity
             /\ new_quantity < trip.quantity
             /\ ReservationApply("update_event_product_quantity", trip.event_id, r)
             /\ trip' = [trip EXCEPT !.phase = "updated",
                                     !.new_quantity = new_quantity,
                                     !.released = reserved[trip.product_id]
                                                  - r.rs.reserved[trip.product_id]]

TripRemove ==
    /\ trip.phase = "updated"
    /\ ReservationApply("remove_product_from_event", trip.event_id,
                        remove_product_from_event(Rs, trip.event_id, trip.product_id))
    /\ trip' = [trip EXCEPT !.phase = "removed"]

\* time passes
Tick ==
    /\ now < MaxTime
    /\ now' = now + 1
    /\ UNCHANGED <<annual_events_columns, inventory, transactions, annual_events,
                   event_products, reserved, conn, mutations, last, net_reserved,
                   trip, catalog, last_scan, scanned, prev_scan, results,
                   side_vars>>

ScanBarcodeApply(raw) ==
    LET r == scan_barcode(catalog, inventory, last_scan, now, raw)
    IN /\ last_scan' = r.last_scan
       /\ scanned' = [op |-> "scan_barcode", barcode |-> r.barcode,
                      valid |-> r.valid, time |-> now, error |-> r.error,
                      product |-> r.product, lookups |-> r.lookups]
       /\ prev_scan' = IF scanned.op = "scan_barcode"
                       THEN Some([barcode |-> scanned.barcode,
                                  timestamp |-> scanned.time])
                       ELSE None
       /\ conn' = IF r.lookups > 0 THEN "closed" ELSE conn
       /\ UNCHANGED <<annual_events_columns, inventory, transactions,
                      annual_events, event_products, reserved, mutations, last,
                      net_reserved, trip, catalog, now, results>>

ScanBarcodeCall(raw) ==
    /\ ScanBarcodeApply(raw)
    /\ UNCHANGED side_vars

\* a scan_barcode call of a scanner whose calls are kept, from the first on
ScanLogged ==
    /\ Len(history) < MaxScans
    /\ \E raw \in RawBarcodes :
          /\ ScanBarcodeApply(raw)
          /\ history' = Append(history, scanned')
          /\ UNCHANGED <<checked, imported, calls>>

\* _validate_barcode(_clean_barcode(raw)) as scan_barcode and
\* process_batch_scan call it
Validate ==
    /\ checked.op = "none"
    /\ \E raw \in ValidatorInputs :
          checked' = [op |-> "validate", raw |-> raw,
                      barcode |-> _clean_barcode(raw),
                      valid |-> _validate_barcode(_clean_barcode(raw)),
                      computed |-> 0, accepted |-> {}]
    /\ UNCHANGED <<annual_events_columns, inventory, transactions, annual_events,
                   event_products, reserved, conn, mutations, last, net_reserved,
                   trip, scanner_vars, history, imported, calls>>

\* a 12-digit prefix completed by each of the ten digits in turn
ValidateCompletions ==
    /\ checked.op = "none"
    /\ \E prefix \in Ean13Prefixes :
          checked' = [op |-> "completions", raw |-> prefix, barcode |-> prefix,
                      valid |-> FALSE,
                      computed |-> expected_check_digit(Append(prefix, "0")),
                      accepted |-> {d \in 0..9 :
                          _validate_barcode(Append(prefix, DigitChars[d + 1]))}]
    /\ UNCHANGED <<annual_events_columns, inventory, transactions, annual_events,
                   event_products, reserved, conn, mutations, last, net_reserved,
                   trip, scanner_vars, history, imported, calls>>

\* a 13-digit barcode with a matching check digit, one digit replaced
ValidateReplaced ==
    /\ checked.op = "none"
    /\ \E prefix \in Ean13Prefixes, i \in 1..13, d \in 0..9 :
          LET barcode == with_check_digit(prefix)
              replaced == [barcode EXCEPT ![i] = DigitChars[d + 1]]
          IN /\ replaced # barcode
             /\ checked' = [op |-> "replaced", raw |-> barcode,
                            barcode |-> replaced,
                            valid |-> _validate_barcode(replaced),
                            computed |-> 0, accepted |-> {}]
    /\ UNCHANGED <<annual_events_columns, inventory, transactions, annual_events,
                   event_products, reserved, conn, mutations, last, net_reserved,
                   trip, scanner_vars, history, imported, calls>>

ScanBarcode ==
    /\ conn # "open"
    /\ \E raw \in RawBarcodes : ScanBarcodeCall(raw)

ProcessBatchScanCall(barcodes) ==
    LET r == process_batch_scan(catalog, inventory, barcodes)
    IN /\ results' = r
       /\ conn' = IF r.found + r.not_found > 0 THEN "closed" ELSE conn
       /\ last' = Call("process_batch_scan", "results",
                       r.found + r.not_found > 0, "none", "none")
       /\ UNCHANGED <<annual_events_columns, inventory, transactions,
                      annual_events, event_products, reserved, mutations,
                      net_reserved, trip, catalog, last_scan, now, scanned,
                      prev_scan, side_vars>>

ProcessBatchScan ==
    /\ conn \in ConnStates
    /\ \E barcodes \in BatchLists : ProcessBatchScanCall(barcodes)

\* process_batch_scan when the lookup of its i-th barcode raises: nothing in
\* the loop or in get_product_by_barcode catches, so the call raises and no
\* results are returned
ProcessBatchScanRaises(barcodes, i, fault) ==
    LET earlier == \E j \in 1..(i - 1) :
                      _validate_barcode(_clean_barcode(barcodes[j]))
        r == lookup(catalog, inventory, IF earlier THEN "closed" ELSE conn,
                    _clean_barcode(barcodes[i]), fault)
    IN /\ _validate_barcode(_clean_barcode(barcodes[i]))
       /\ conn' = r.conn
       /\ last' = Call("process_batch_scan", r.result, earlier \/ r.connected,
                       r.raised, "none")
       /\ UNCHANGED <<annual_events_columns, inventory, transactions,
                      annual_events, event_products, reserved, mutations,
                      net_reserved, trip, scanner_vars, side_vars>>

ProcessBatchScanFails ==
    /\ conn \in ConnStates
    /\ \E barcodes \in BatchLists, fault \in QueryFaults \ {"none"} :
          \E i \in DOMAIN barcodes : ProcessBatchScanRaises(barcodes, i, fault)

\* the ledger alone
LedgerNext == ImportProduct \/ AddStock \/ RemoveStock

LedgerSpec == Init /\ [][LedgerNext]_vars

Next == ImportProduct \/ AddStock \/ RemoveStock \/ Assign \/ UpdateQuantity \/ Remove

Spec == Init /\ [][Next]_vars

\* import_products_to_event called with several selections, over stocked products
BatchNext == ImportProduct \/ AddStock \/ AssignBatch

BatchSpec == Init /\ [][BatchNext]_vars

\* a round trip assign, update_quantity, remove started in any state the
\* ledger and earlier assignments lead to
RoundTripIdle ==
    /\ trip.phase = "idle"
    /\ (ImportProduct \/ AddStock \/ Assign)

RoundTripNext == RoundTripIdle \/ TripAssign \/ TripUpdate \/ TripRemove

RoundTripSpec == Init /\ [][RoundTripNext]_vars

\* the scanner, one scan_barcode call at a time, over a growing catalog
ScannerNext == ImportBarcodedProduct \/ Tick \/ ScanBarcode

ScannerSpec == Init /\ [][ScannerNext]_vars

\* process_batch_scan over a growing catalog
BatchScanNext == ImportBarcodedProduct \/ ProcessBatchScan

BatchScanSpec == Init /\ [][BatchScanNext]_vars

\* remove_stock calls of several callers, each on its own connection, taking
\* turns statement by statement
InterleavedNext == ImportProduct \/ AddStock \/ CheckStock \/ UpdateStock

InterleavedSpec == Init /\ [][InterleavedNext]_vars

\* file imports of products and of annual events
ImportNext == ImportExcelFile \/ ImportEvents \/ AddStock

ImportSpec == Init /\ [][ImportNext]_vars

\* process_batch_scan over a database that can fail to open or to answer
BatchScanFaultNext ==
    ImportBarcodedProduct \/ ProcessBatchScan \/ ProcessBatchScanFails

BatchScanFaultSpec == Init /\ [][BatchScanFaultNext]_vars

\* the ledger and a read query over a database that can fail to open or to
\* answer
ConnectionNext ==
    \/ ImportBarcodedProduct
    \/ AddStock
    \/ RemoveStock
    \/ AddStockUnreachable
    \/ RemoveStockUnreachable
    \/ GetProductByBarcode

ConnectionSpec == Init /\ [][ConnectionNext]_vars

\* the validator alone, over one input
ValidatorNext == Validate \/ ValidateCompletions \/ ValidateReplaced

ValidatorSpec == Init /\ [][ValidatorNext]_vars

\* the first MaxScans scan_barcode calls of a new scanner
ScanSequenceNext == ImportBarcodedProduct \/ Tick \/ ScanLogged

ScanSequenceSpec == Init /\ [][ScanSequenceNext]_vars

\* ---------------------------------------------------------------- claims
LedgerOps == {"add_stock", "remove_stock"}

\* sum of the quantities of the selections that name product p
RECURSIVE selected_for_product(_, _)
selected_for_product(sels, p) ==
    IF sels = <<>> THEN 0
    ELSE (IF Head(sels).product_id = p THEN Head(sels).quantity ELSE 0)
         + selected_for_product(Tail(sels), p)

names_product(sels, p) == \E i \in DOMAIN sels : sels[i].product_id = p

quantity_assigned(ep, e, p) == IF <<e, p>> \in DOMAIN ep THEN ep[<<e, p>>] ELSE 0

available(inv, res, p) == on_hand(inv, p) - res[p]

C2_OnHandNonNegative ==
    \A p \in DOMAIN inventory : inventory[p] >= 0

C2_Witness ==
    /\ last.op = "remove_stock"
    /\ last.result = "True"
    /\ \E p \in DOMAIN inventory : inventory[p] = 0

C4_AddStockSucceeds ==
    [][last'.op = "add_stock" =>
        \A p \in Products, q \in Quantities :
          ( /\ annual_events_columns = create_tables_annual_events
            /\ p \in DOMAIN inventory
            /\ q > 0
            /\ AddStockCall(p, q, "none") )
          => ( /\ last'.result = "True"
               /\ inventory'[p] = inventory[p] + q
               /\ transactions' = Append(transactions,
                      [product_id |-> p, transaction_type |-> "in", quantity |-> q]) )
      ]_vars

\* C5: remove_stock(p, q) with q above the on-hand of p returns failure and
\* leaves inventory, the transaction ledger and the audit log as they were.
C5_RemoveBeyondOnHandFails ==
    [][last'.op = "remove_stock" =>
        \A p \in Products, q \in Quantities, f \in Faults :
          (q > on_hand(inventory, p) /\ RemoveStockCall(p, q, f))
          => (last'.result = "False" /\ UNCHANGED ledger_vars)
      ]_vars

C5_Witness ==
    /\ last.op = "remove_stock"
    /\ last.result = "False"
    /\ last.connected
    /\ last.raised = "none"
    /\ \E p \in DOMAIN inventory : inventory[p] > 0

\* C6: when the transaction insert or the audit-event insert of add_stock or
\* remove_stock fails, the call returns failure and inventory, the ledger and
\* the audit log equal their values before the call.
C6_AllOrNothing ==
    [][last'.op \in LedgerOps =>
        \A p \in Products, q \in Quantities, f \in Faults :
          ( /\ AddStockCall(p, q, f) \/ RemoveStockCall(p, q, f)
            /\ last'.raised \in {"transaction_insert", "audit_insert"} )
          => (last'.result = "False" /\ UNCHANGED ledger_vars)
      ]_vars

C6_Witness ==
    /\ last.op \in LedgerOps
    /\ last.raised \in {"transaction_insert", "audit_insert"}
    /\ last.result = "False"
    /\ \E p \in DOMAIN inventory : inventory[p] > 0

C8_NonPositiveRejected ==
    [][last'.op \in LedgerOps =>
        \A p \in Products, q \in Quantities, f \in Faults :
          (q <= 0 /\ (AddStockCall(p, q, f) \/ RemoveStockCall(p, q, f)))
          => ( /\ last'.result = "False"
               /\ ~last'.connected
               /\ conn' = conn
               /\ UNCHANGED ledger_vars )
      ]_vars

C8_Witness ==
    /\ last.op \in LedgerOps
    /\ last.result = "False"
    /\ ~last.connected
    /\ \E p \in DOMAIN inventory : inventory[p] > 0

\* C9: assign(e, p, q) with available stock of p below q fails with the
\* insufficient-stock error and leaves EventProduct rows, reservations and
\* inventory as they were; so does any assign that raises that error.
C9_AssignInsufficientFails ==
    [][last'.op = "import_products_to_event" =>
        \A e \in Events, sels \in SelectionLists :
          AssignCall(e, sels)
          => /\ (available(inventory, reserved, sels[1].product_id) < sels[1].quantity)
                  => (last'.result = "ValueError" /\ last'.raised = "insufficient_stock")
             /\ (last'.raised = "insufficient_stock")
                  => UNCHANGED <<event_products, reserved, inventory>>
      ]_vars

C9_Witness ==
    /\ last.op = "import_products_to_event"
    /\ last.result = "ValueError"
    /\ last.raised = "insufficient_stock"
    /\ \E k \in DOMAIN event_products : event_products[k] > 0

\* C10: a successful assign upserts: a row (e, p) named by the call holds its
\* former quantity_assigned (0 when it did not exist) plus the quantity
\* assigned, the available stock of p drops by that quantity, and no other
\* (event, product) row changes.
C10_AssignUpserts ==
    [][last'.op = "import_products_to_event" =>
        \A e \in Events, sels \in SelectionLists :
          (AssignCall(e, sels) /\ last'.result = "True")
          => /\ \A p \in Products :
                   /\ names_product(sels, p)
                        => /\ <<e, p>> \in DOMAIN event_products'
                           /\ event_products'[<<e, p>>] =
                                 quantity_assigned(event_products, e, p)
                                 + selected_for_product(sels, p)
                   /\ available(inventory', reserved', p) =
                         available(inventory, reserved, p) - selected_for_product(sels, p)
             /\ \A k \in (DOMAIN event_products \cup DOMAIN event_products') :
                   (k[1] # e \/ ~names_product(sels, k[2]))
                   => /\ k \in DOMAIN event_products
                      /\ k \in DOMAIN event_products'
                      /\ event_products'[k] = event_products[k]
      ]_vars

C10_Witness ==
    /\ last.op = "import_products_to_event"
    /\ last.result = "True"
    /\ last.path = "update"
    /\ \E e1 \in Events, e2 \in Events, p \in Products :
          /\ e1 # e2
          /\ <<e1, p>> \in DOMAIN event_products
          /\ <<e2, p>> \in DOMAIN event_products
          /\ event_products[<<e1, p>>] > 0
          /\ event_products[<<e2, p>>] > 0

UpdateOp == "update_event_product_quantity"
RemoveOp == "remove_product_from_event"

\* C11: import_products_to_event is atomic over its selection list: when a
\* selection after the first fails (insufficient stock or another exception),
\* the rows and reservations made for the earlier selections are rolled back,
\* rows, reservations and inventory equal their values before the call, and
\* the exception reaches the caller.
C11_BatchAtomic ==
    [][(last'.op = "import_products_to_event" /\ last'.result # "True")
        => /\ last'.result \in {"ValueError", "KeyError"}
           /\ last'.raised \in {"insufficient_stock", "missing_quantity"}
           /\ UNCHANGED <<event_products, reserved, net_reserved, inventory>>
      ]_vars

C11_Witness ==
    /\ last.op = "import_products_to_event"
    /\ last.result \in {"ValueError", "KeyError"}
    /\ last.path \in {"insert", "update"}
    /\ \E k \in DOMAIN event_products : event_products[k] > 0

\* C12: a successful update_quantity(e, p, n) on a row holding c sets
\* quantity_assigned(e, p) to n and moves the reserved total of p by n - c:
\* it reserves when n > c, releases when n < c, does neither when n = c.
C12_UpdateSetsAndShifts ==
    [][last'.op = UpdateOp =>
        \A e \in Events, p \in Products, n \in Quantities :
          (UpdateQuantityCall(e, p, n) /\ last'.result = "True")
          => LET c == quantity_assigned(event_products, e, p)
             IN /\ <<e, p>> \in DOMAIN event_products
                /\ <<e, p>> \in DOMAIN event_products'
                /\ event_products'[<<e, p>>] = n
                /\ reserved'[p] = reserved[p] + (n - c)
                /\ \A p2 \in Products \ {p} : reserved'[p2] = reserved[p2]
                /\ last'.path = IF n > c THEN "reserve"
                                ELSE IF n < c THEN "release" ELSE "none"
      ]_vars

C12_Witness ==
    /\ last.op = UpdateOp
    /\ last.result = "True"
    /\ last.path = "reserve"
    /\ \E k \in DOMAIN event_products : event_products[k] = MaxAssigned

\* C13: update_quantity(e, p, n) with n - c > 0 and available stock of p below
\* n - c fails with the insufficient-stock error; quantity_assigned(e, p),
\* every reservation and the inventory stay as they were.
C13_UpdateInsufficientFails ==
    [][last'.op = UpdateOp =>
        \A e \in Events, p \in Products, n \in Quantities :
          ( /\ UpdateQuantityCall(e, p, n)
            /\ <<e, p>> \in DOMAIN event_products
            /\ n - quantity_assigned(event_products, e, p) > 0
            /\ available(inventory, reserved, p)
                  < n - quantity_assigned(event_products, e, p) )
          => /\ last'.result = "ValueError"
             /\ last'.raised = "insufficient_stock"
             /\ UNCHANGED <<event_products, reserved, inventory>>
      ]_vars

C13_Witness ==
    /\ last.op = UpdateOp
    /\ last.result = "ValueError"
    /\ last.raised = "insufficient_stock"
    /\ \E k \in DOMAIN event_products : event_products[k] > 0

\* C14: a successful remove(e, p) gives exactly quantity_assigned(e, p) back
\* to the available stock of p, deletes the row (e, p) and leaves every other
\* EventProduct row and every other product's reservation as it was.
C14_RemoveReleasesAll ==
    [][last'.op = RemoveOp =>
        \A e \in Events, p \in Products :
          (RemoveCall(e, p) /\ last'.result = "True")
          => /\ <<e, p>> \in DOMAIN event_products
             /\ <<e, p>> \notin DOMAIN event_products'
             /\ available(inventory', reserved', p) =
                   available(inventory, reserved, p)
                   + quantity_assigned(event_products, e, p)
             /\ \A p2 \in Products \ {p} : reserved'[p2] = reserved[p2]
             /\ DOMAIN event_products' = DOMAIN event_products \ {<<e, p>>}
             /\ \A k \in DOMAIN event_products' :
                   event_products'[k] = event_products[k]
      ]_vars

C14_Witness ==
    /\ last.op = RemoveOp
    /\ last.result = "True"
    /\ \E p \in Products : reserved[p] > 0
    /\ \E k \in DOMAIN event_products : event_products[k] > 0

\* C15: update_quantity and remove for a pair (e, p) without an EventProduct
\* row raise the not-assigned error to the caller after the rollback and leave
\* rows, reservations and inventory unchanged.
C15_UnassignedPairFails ==
    [][last'.op \in {UpdateOp, RemoveOp} =>
        \A e \in Events, p \in Products, n \in Quantities :
          ( /\ UpdateQuantityCall(e, p, n) \/ RemoveCall(e, p)
            /\ <<e, p>> \notin DOMAIN event_products )
          => /\ last'.result = "ValueError"
             /\ last'.raised = "not_assigned"
             /\ UNCHANGED <<event_products, reserved, net_reserved, inventory>>
      ]_vars

C15_Witness ==
    /\ last.op \in {UpdateOp, RemoveOp}
    /\ last.result = "ValueError"
    /\ last.raised = "not_assigned"
    /\ \E k \in DOMAIN event_products : event_products[k] > 0

C17_RowsPositive ==
    \A k \in DOMAIN event_products : event_products[k] > 0

\* C18: for every product the reserved total (reserve calls minus release
\* calls) equals the sum over events of quantity_assigned, and for every pair
\* (e, p) quantity_assigned equals the net amount reserved on its behalf.
C18_ReservedMatchesAssigned ==
    /\ \A p \in Products : reserved[p] = total_assigned(event_products, p)
    /\ \A k \in Pairs :
          net_reserved[k] = quantity_assigned(event_products, k[1], k[2])

C18_Witness ==
    /\ last.op = UpdateOp
    /\ last.path = "release"
    /\ \E p \in Products :
          /\ reserved[p] = MaxAssigned
          /\ \A e \in Events : quantity_assigned(event_products, e, p) > 0

C20_DuplicateRelativeToPrevious ==
    ( /\ scanned.op = "scan_barcode"
      /\ scanned.valid
      /\ prev_scan # None
      /\ prev_scan[1].barcode = scanned.barcode
      /\ scanned.time - prev_scan[1].timestamp < scan_timeout )
    => /\ scanned.error = "Duplicate scan"
       /\ scanned.lookups = 0
       /\ last_scan # None
       /\ scanned.product = last_scan[1].product

\* C21: a scan of a valid barcode when scan_timeout or more has elapsed since
\* the cached scan of that barcode (exactly scan_timeout included) queries
\* the catalog afresh, returns the lookup's result without the duplicate
\* signal, and replaces the cache by the new barcode, timestamp and product.
C21_FreshLookupAfterTimeout ==
    [][\A raw \in RawBarcodes :
          ( /\ ScanBarcodeCall(raw)
            /\ _validate_barcode(_clean_barcode(raw))
            /\ last_scan # None
            /\ last_scan[1].barcode = _clean_barcode(raw)
            /\ now - last_scan[1].timestamp >= scan_timeout )
          => /\ scanned'.error = "none"
             /\ scanned'.lookups = 1
             /\ scanned'.product =
                   get_product_by_barcode(catalog, inventory, _clean_barcode(raw))
             /\ last_scan' = Some([barcode |-> _clean_barcode(raw),
                                   timestamp |-> now,
                                   product |-> scanned'.product])
      ]_vars

\* the same barcode scanned at 0 and again exactly scan_timeout later
C21_Witness ==
    /\ scanned.op = "scan_barcode"
    /\ scanned.valid
    /\ scanned.time = scan_timeout
    /\ prev_scan # None
    /\ prev_scan[1].barcode = scanned.barcode
    /\ prev_scan[1].timestamp = 0
    /\ scanned.error = "none"
    /\ scanned.lookups = 1
    /\ scanned.product # None
    /\ last_scan = Some([barcode |-> scanned.barcode, timestamp |-> scan_timeout,
                         product |-> scanned.product])

\* C29: a scan_barcode call that returns an error result (invalid barcode,
\* duplicate scan) leaves the cached last scan as it was and queries nothing;
\* the cache is overwritten only by a scan that performs a lookup.
C29_ErrorScanKeepsCache ==
    [][\A raw \in RawBarcodes :
          ScanBarcodeCall(raw)
          => /\ scanned'.error # "none"
                => (last_scan' = last_scan /\ scanned'.lookups = 0)
             /\ last_scan' # last_scan => scanned'.lookups = 1
      ]_vars

\* a duplicate answered later than the scan the cache holds
C29_Witness ==
    /\ scanned.op = "scan_barcode"
    /\ scanned.error = "Duplicate scan"
    /\ scanned.lookups = 0
    /\ last_scan # None
    /\ last_scan[1].barcode = scanned.barcode
    /\ last_scan[1].timestamp < scanned.time

\* C30: for valid barcodes A # B, the first three scans of a scanner being
\* A, B, A, all three inside one scan_timeout window, make three catalog
\* lookups and none of them returns the duplicate signal.
C30_AlternatingScansLookUp ==
    ( /\ Len(history) >= 3
      /\ history[1].valid
      /\ history[2].valid
      /\ history[3].barcode = history[1].barcode
      /\ history[2].barcode # history[1].barcode
      /\ history[3].time - history[1].time < scan_timeout )
    => \A i \in 1..3 :
          /\ history[i].lookups = 1
          /\ history[i].error = "none"

\* A at 0, B, and A again one second after the first scan
C30_Witness ==
    /\ Len(history) >= 3
    /\ history[1].valid
    /\ history[2].valid
    /\ history[3].barcode = history[1].barcode
    /\ history[2].barcode # history[1].barcode
    /\ history[1].time = 0
    /\ history[3].time = 1
    /\ history[3].lookups = 1
    /\ history[3].product # None

\* the validity rule as stated: digits are summed by their 0-based index
RECURSIVE sum_at(_, _)
sum_at(barcode, indices) ==
    IF indices = {} THEN 0
    ELSE LET i == CHOOSE j \in indices : TRUE
         IN int(barcode[i + 1]) + sum_at(barcode, indices \ {i})

weighted_total(barcode) ==
    LET before_last == 0..(Len(barcode) - 2)
        at_even == sum_at(barcode, {i \in before_last : i % 2 = 0})
        at_odd == sum_at(barcode, {i \in before_last : i % 2 = 1})
    IN IF Len(barcode) \in {8, 12} THEN 3 * at_even + at_odd
       ELSE 3 * at_odd + at_even

stated_valid(barcode) ==
    /\ Len(barcode) \in {8, 12, 13, 14}
    /\ Len(barcode) \in {8, 12, 13}
       => int(barcode[Len(barcode)]) = (10 - (weighted_total(barcode) % 10)) % 10

C23_CheckDigitRoundTrip ==
    /\ checked.op = "completions"
       => checked.accepted = {checked.computed}
    /\ checked.op = "replaced"
       => /\ _validate_barcode(checked.raw)
          /\ ~checked.valid

\* the first digit of a valid EAN-13 replaced
C23_Witness ==
    /\ checked.op = "replaced"
    /\ Len(checked.raw) = 13
    /\ _validate_barcode(checked.raw)
    /\ checked.barcode[1] # checked.raw[1]
    /\ ~checked.valid

\* C25: add_stock and remove_stock report every failure by returning False
\* and never raise to the caller, also when opening the connection fails
\* while db_manager.conn still holds the connection an earlier operation
\* closed.
C25_FailuresReturnFalse ==
    last.op \in LedgerOps => last.result \in {"True", "False"}

\* C26: every InventoryManager operation (add_stock, remove_stock, the read
\* queries) has closed the connection it opened by the time it returns or
\* raises, so no connection is open between two operations.
C26_NoConnectionLeftOpen ==
    conn # "open"

\* C24: process_batch_scan puts every input barcode into exactly one bucket
\* and never raises: found + not_found + invalid = total, the number of
\* collected product records is found, and no call ends in an exception.
C24_OneBucketEachNeverRaises ==
    /\ results.found + results.not_found + results.invalid = results.total
    /\ Len(results.products) = results.found
    /\ last.op = "process_batch_scan" => last.raised = "none"

\* C27: in an import of products (import_excel_file) or of annual events
\* (import_events_from_excel), a row whose write fails with an integrity
\* error is skipped and the import goes on: the call does not raise and every
\* other row of the file is written and committed.
C27_ConflictingRowSkipped ==
    ( /\ imported.op \in {"import_excel_file", "import_events_from_excel"}
      /\ imported.conflicts > 0 )
    => /\ imported.raised = "none"
       /\ imported.written = imported.rows - imported.conflicts

====
